---- MODULE Spec2Model ----
(***************************************************************************)
(* nix-bisect: the build-outcome decision engine.                          *)
(*                                                                         *)
(*   src/nix_bisect/cli.py   _perform_bisect: one bisection step           *)
(*   src/nix_bisect/nix.py   build, _build_uncached, log_contains,         *)
(*                           build_would_succeed, build_dry, dependencies, *)
(*                           log                                           *)
(*                                                                         *)
(* The program is sequential.  Its state is the persisted cache (the       *)
(* build-results.json OutcomeMap and the logs directory), the frames of    *)
(* the running functions and the position in them (pc).  The external      *)
(* build tool is the environment: which units are realized in the store,   *)
(* which are substitutable, and what `nix log` answers for each unit.      *)
(***************************************************************************)
EXTENDS Integers, Sequences, FiniteSets, TLC

\* ------------------------------------------------------------------ bounds
MaxCeiling == 2      \* --max-rebuilds is drawn from 0..MaxCeiling (or absent)
MaxScanLen == 3      \* longest output stream fed to the scanner on its own
MaxPicks == 1        \* number of --try-cherry-pick revisions, 0..MaxPicks

\* --------------------------------------------------------------- universe
\* A store path is the sequence of its components.
StoreDir == <<"nix", "store">>
A == StoreDir \o <<"dep.drv">>          \* a dependency of the target
T == StoreDir \o <<"target.drv">>       \* what the attribute instantiates to
Drvs == {A, T}
DrvOrder == <<A, T>>                    \* order in which the tool lists units

Marker == "error: boom"                 \* the phrase looked for in logs
Phrases == {Marker}

NoCeiling == -1                         \* max_rebuilds is None
NoLine == "None"                        \* failure_line is None

\* Terminal geometries (rows, columns); NoSize: no child channel yet.
Geoms == {<<24, 80>>, <<50, 132>>}
InitialGeom == <<24, 80>>
NoSize == <<>>

\* Path(drv).name: the last component of the path.
Name(d) == d[Len(d)]

\* Direct build inputs of a unit (the build graph of the tool).
Inputs(d) == IF d = T THEN {A} ELSE {}
Closure(ds) == ds \cup UNION {Inputs(d) : d \in ds}

\* A log is unavailable (None) or a text; a text is modelled by the set of
\* phrases that occur in it.
NoLog == [avail |-> FALSE, text |-> {}]
LogVals == {NoLog} \cup {[avail |-> TRUE, text |-> s] : s \in SUBSET Phrases}

\* `phrase in text`
Contains(text, phrase) == phrase \in text

\* ------------------------------------------------------------- sequences
Range(s) == {s[i] : i \in 1..Len(s)}

\* the subsequence of DrvOrder whose elements are in S
RECURSIVE Listed(_, _)
Listed(order, S) ==
    IF order = <<>> THEN <<>>
    ELSE (IF Head(order) \in S THEN <<Head(order)>> ELSE <<>>)
         \o Listed(Tail(order), S)

\* list.remove(x): drops the first occurrence; ValueError is swallowed
RECURSIVE RemoveFirst(_, _)
RemoveFirst(s, x) ==
    IF s = <<>> THEN <<>>
    ELSE IF Head(s) = x THEN Tail(s)
    ELSE <<Head(s)>> \o RemoveFirst(Tail(s), x)

\* ------------------------------------------------------------------ dicts
\* A dict is a function on the set of its keys.
EmptyDict == [k \in {} |-> FALSE]
DictGet(m, k, default) == IF k \in DOMAIN m THEN m[k] ELSE default

VARIABLES
    \* the build tool (environment)
    realized,       \* units whose outputs are in the store
    substitutable,  \* units the tool would fetch rather than build
    nixLog,         \* what `nix log` answers for each unit
    \* persisted cache (AppDirs("nix-bisect").user_cache_dir)
    cacheDirs,      \* cache_dir and logs_dir exist
    cacheFile,      \* build-results.json: "absent", "valid" or "malformed"
    cacheMap,       \* the OutcomeMap in build-results.json when valid
    logFiles,       \* logs/<name> -> text, for the files that exist
    \* control
    pc, op, ret, exc, result,
    \* _perform_bisect
    toPick, drv, maxRebuilds, failureLine, buildOptions, verdicts,
    \* build / _build_uncached
    bDrvs, bUse, bWrite, resultCache, bResult, bFailed, bSpawned,
    stream, drvsFailed,
    \* log_contains
    lcDrv, lcPhrase, lcWrite,
    \* what the running top-level call has done so far
    nSpawn, nRealize, nLog, nDry,
    \* the build process on its pseudo-terminal
    output,         \* everything the last spawned build process printed
    handler,        \* the SIGWINCH handler of _build_uncached is installed
    termSize,       \* rows and columns of the controlling terminal
    childSize,      \* rows and columns last set on the child's channel
    chanClosed      \* build_process.closed

envVars == <<realized, substitutable, nixLog>>
cacheVars == <<cacheDirs, cacheFile, cacheMap, logFiles>>
ctlVars == <<pc, op, ret, exc, result>>
bisectVars == <<toPick, drv, maxRebuilds, failureLine, buildOptions, verdicts>>
buildVars == <<bDrvs, bUse, bWrite, resultCache, bResult, bFailed, bSpawned,
               stream, drvsFailed>>
lcVars == <<lcDrv, lcPhrase, lcWrite>>
histVars == <<nSpawn, nRealize, nLog, nDry>>
ptyVars == <<output, handler, termSize, childSize, chanClosed>>
vars == <<envVars, cacheVars, ctlVars, bisectVars, buildVars, lcVars, histVars, ptyVars>>

\* ------------------------------------------------------- the build tool
\* nix.log(drv): None when `nix log` exits non-zero
Log(d) == nixLog[d]

\* nix.build_dry(drvs) = (to_build, to_fetch), when its output parses
Needed(ds) == Closure(ds) \ realized
ToBuild(ds) == Listed(DrvOrder, Needed(ds) \ substitutable)
ToFetch(ds) == Listed(DrvOrder, Needed(ds) \cap substitutable)

\* nix.dependencies(drvs)
RECURSIVE RemoveAll(_, _)
RemoveAll(s, ds) ==
    IF ds = <<>> THEN s ELSE RemoveAll(RemoveFirst(s, Head(ds)), Tail(ds))
Dependencies(ds) == RemoveAll(ToBuild(Range(ds)) \o ToFetch(Range(ds)), ds)


\* The failure messages of `nix build` (_CANNOT_BUILD_PAT, _BUILD_FAILED_PAT,
\* _BUILD_TIMEOUT_PAT, _BUILDER_FAILED_PAT) and any other output.
Msg(shape, ids) == [shape |-> shape, ids |-> ids]
Other == Msg("other", <<>>)
IsFailureMsg(m) == m.shape \in {"cannot", "buildof", "timeout", "builder"}

\* What one `nix build` of units that still need `needed` may print.
BuildOutputs(needed) ==
    {<<>>, <<Other>>}
    \cup {<<Other, Msg("builder", <<d>>)>> : d \in needed}
    \cup {<<Msg("timeout", <<d>>), Other>> : d \in needed}
    \cup {<<Msg("builder", <<a>>), Msg("cannot", <<d>>), Msg("buildof", <<d>>)>> :
            a \in needed \cap Inputs(T), d \in needed \cap {T}}
    \cup (IF needed = {} THEN {} ELSE {<<Msg("buildof", Listed(DrvOrder, needed))>>})

NamedIn(out) == UNION {Range(out[i].ids) : i \in 1..Len(out)}

\* Units a build can have realized when those in `failed` failed.
Buildable(needed, failed) == {d \in needed \ failed : Closure({d}) \cap failed = {}}

\* ------------------------------------------------------------------- Init
Init ==
    /\ realized \in SUBSET Drvs
    /\ substitutable \in SUBSET Drvs
    /\ nixLog \in [Drvs -> LogVals]
    /\ cacheDirs = FALSE
    /\ cacheFile = "absent"
    /\ cacheMap = EmptyDict
    /\ logFiles = EmptyDict
    /\ pc = "idle" /\ op = "none" /\ ret = "none" /\ exc = "none" /\ result = "none"
    /\ toPick = 0 /\ drv = <<>> /\ maxRebuilds = NoCeiling /\ failureLine = NoLine
    /\ buildOptions = <<>> /\ verdicts = <<>>
    /\ bDrvs = <<>> /\ bUse = FALSE /\ bWrite = FALSE /\ resultCache = EmptyDict
    /\ bResult = "none" /\ bFailed = {} /\ bSpawned = FALSE
    /\ stream = <<>> /\ drvsFailed = {}
    /\ lcDrv = <<>> /\ lcPhrase = Marker /\ lcWrite = FALSE
    /\ nSpawn = 0 /\ nRealize = 0 /\ nLog = 0 /\ nDry = 0
    /\ output = <<>> /\ handler = FALSE /\ termSize = InitialGeom
    /\ childSize = NoSize /\ chanClosed = FALSE

\* No call is running.
Idle == pc = "idle"

\* The running top-level call has ended: it returned or reported its verdict
\* ("done"), an exception left it ("raised"), or the run was aborted.
Ended == pc \in {"done", "raised", "aborted"}

\* The process of the call is gone: its frames with it.  The store and the
\* persisted cache stay.
Exit ==
    /\ Ended
    /\ pc' = "idle" /\ op' = "none" /\ ret' = "none" /\ exc' = "none" /\ result' = "none"
    /\ toPick' = 0 /\ drv' = <<>> /\ maxRebuilds' = NoCeiling /\ failureLine' = NoLine
    /\ buildOptions' = <<>> /\ verdicts' = <<>>
    /\ bDrvs' = <<>> /\ bUse' = FALSE /\ bWrite' = FALSE /\ resultCache' = EmptyDict
    /\ bResult' = "none" /\ bFailed' = {} /\ bSpawned' = FALSE
    /\ stream' = <<>> /\ drvsFailed' = {}
    /\ lcDrv' = <<>> /\ lcPhrase' = Marker /\ lcWrite' = FALSE
    /\ nSpawn' = 0 /\ nRealize' = 0 /\ nLog' = 0 /\ nDry' = 0
    /\ output' = <<>> /\ handler' = FALSE /\ childSize' = NoSize /\ chanClosed' = FALSE
    /\ UNCHANGED <<envVars, cacheVars, termSize>>

\* An exception nothing catches leaves the top-level call.
Raise(e) == pc' = "raised" /\ exc' = e

\* ------------------------------------------------------------------ build
\* build(drvs, use_cache, write_cache) is entered; `label` is where it returns.
CallBuild(ds, use, write, label) ==
    /\ bDrvs' = ds /\ bUse' = use /\ bWrite' = write
    /\ resultCache' = EmptyDict /\ bResult' = "none" /\ bFailed' = {}
    /\ bSpawned' = FALSE /\ stream' = <<>> /\ drvsFailed' = {}
    /\ pc' = "build" /\ ret' = label

\* mutant: the map is loaded only by a call that both consults and writes it
ShouldLoadCacheBoth(use, write, exists) == (use /\ write) /\ exists

\* mutant: the map is loaded only when it is consulted
ShouldLoadCacheUseOnly(use, write, exists) == use /\ exists

\* nix.py:262  (use_cache or write_cache) and cache_file.exists()
ShouldLoadCache(use, write, exists) == (use \/ write) /\ exists

\* mutant: a unit without an entry counts as failed
CachedFailureGuilty(rc, d) == ~DictGet(rc, d, FALSE)

\* nix.py:271  not result_cache.get(drv, True)
CachedFailure(rc, d) == ~DictGet(rc, d, TRUE)

\* nix.py:269-273  the first requested unit with a cached failure, 0 if none
FirstCachedFailure(rc, ds) ==
    IF \E i \in 1..Len(ds) : CachedFailure(rc, ds[i])
    THEN CHOOSE i \in 1..Len(ds) :
            /\ CachedFailure(rc, ds[i])
            /\ \A j \in 1..(i - 1) : ~CachedFailure(rc, ds[j])
    ELSE 0

\* nix.py:256-273
BuildEnter ==
    /\ pc = "build"
    /\ UNCHANGED ptyVars
    /\ cacheDirs' = TRUE
    /\ UNCHANGED <<envVars, cacheFile, cacheMap, logFiles, op, result>>
    /\ UNCHANGED <<bisectVars, lcVars, histVars>>
    /\ UNCHANGED <<bDrvs, bUse, bWrite, bSpawned, stream, drvsFailed>>
    /\ IF ShouldLoadCache(bUse, bWrite, cacheFile # "absent") /\ cacheFile = "malformed"
       THEN /\ Raise("JSONDecodeError")
            /\ UNCHANGED <<ret, resultCache, bResult, bFailed>>
       ELSE LET loaded == IF ShouldLoadCache(bUse, bWrite, cacheFile # "absent")
                          THEN cacheMap ELSE EmptyDict
                i == FirstCachedFailure(loaded, bDrvs)
            IN  /\ resultCache' = loaded
                /\ IF bUse /\ i # 0
                   THEN /\ bResult' = "BuildFailure"
                        /\ bFailed' = {bDrvs[i]}
                        /\ pc' = ret
                   ELSE /\ pc' = "uncached"
                        /\ UNCHANGED <<bResult, bFailed>>
                /\ UNCHANGED <<ret, exc>>

\* mutant: the channel's state is not looked at
ShouldForwardAlways(closed) == TRUE

\* nix.py:144  if not build_process.closed
ShouldForward(closed) == ~closed

\* nix.py:139-145  _update_build_winsize: the terminal's geometry, as it is
\* when the function runs, is set on the child's channel unless it is closed
UpdateBuildWinsize(closed) ==
    childSize' = IF ShouldForward(closed) THEN termSize' ELSE childSize

\* nix.py:127-150  nothing to do, or the build process is spawned
UncachedStart ==
    /\ pc = "uncached"
    /\ UNCHANGED <<substitutable, cacheVars, op, ret, exc, result>>
    /\ UNCHANGED <<bisectVars, lcVars, nRealize, nLog, nDry>>
    /\ UNCHANGED <<bDrvs, bUse, bWrite, resultCache, bFailed, drvsFailed>>
    /\ IF Len(bDrvs) = 0
       THEN /\ bResult' = "ok"
            /\ pc' = ret
            /\ UNCHANGED <<realized, nixLog, bSpawned, stream, nSpawn>>
            /\ UNCHANGED ptyVars
       ELSE /\ nSpawn' = nSpawn + 1
            /\ bSpawned' = TRUE
            /\ chanClosed' = FALSE
            /\ UNCHANGED termSize
            /\ UpdateBuildWinsize(FALSE)
            /\ handler' = TRUE
            /\ pc' = "expect"
            /\ UNCHANGED bResult
            /\ \E out \in BuildOutputs(Needed(Range(bDrvs))) :
               \E done \in {{}, Buildable(Needed(Range(bDrvs)), NamedIn(out))} :
               \E logs \in [Drvs -> LogVals] :
                  /\ \A d \in Drvs \ (NamedIn(out) \cup done) : logs[d] = nixLog[d]
                  /\ stream' = out
                  /\ output' = out
                  /\ realized' = realized \cup done
                  /\ nixLog' = logs

\* nix.py:171-190  the ids the matched line adds to drvs_failed
MatchCannot(m) == IF m.shape = "cannot" THEN {m.ids[1]} ELSE {}
MatchBuildFailedFirstOnly(m) == IF m.shape = "buildof" THEN {m.ids[1]} ELSE {}
MatchBuildFailed(m) == IF m.shape = "buildof" THEN Range(m.ids) ELSE {}
MatchTimeout(m) == IF m.shape = "timeout" THEN {m.ids[1]} ELSE {}
MatchBuilderFailed(m) == IF m.shape = "builder" THEN {m.ids[1]} ELSE {}
MatchIds(m) ==
    MatchCannot(m) \cup MatchBuildFailed(m) \cup MatchTimeout(m) \cup MatchBuilderFailed(m)

\* build_process.expect: the output up to the next failure message is passed over
RECURSIVE SkipOther(_)
SkipOther(s) ==
    IF s = <<>> \/ IsFailureMsg(Head(s)) THEN s ELSE SkipOther(Tail(s))

\* nix.py:152-190  one round of the loop: a failure message matched
ExpectMatch ==
    /\ pc = "expect"
    /\ UNCHANGED ptyVars
    /\ SkipOther(stream) # <<>>
    /\ drvsFailed' = drvsFailed \cup MatchIds(Head(SkipOther(stream)))
    /\ stream' = Tail(SkipOther(stream))
    /\ UNCHANGED <<envVars, cacheVars, ctlVars, bisectVars, lcVars, histVars>>
    /\ UNCHANGED <<bDrvs, bUse, bWrite, resultCache, bResult, bFailed, bSpawned>>

\* mutant: the failure set is not looked at
HasFailuresNever(failed) == FALSE

\* nix.py:194  len(drvs_failed) > 0
HasFailures(failed) == Cardinality(failed) > 0

\* nix.py:191-195  end of stream
ExpectEOF ==
    /\ pc = "expect"
    /\ UNCHANGED ptyVars
    /\ SkipOther(stream) = <<>>
    /\ stream' = <<>>
    /\ IF HasFailures(drvsFailed)
       THEN pc' = "except" /\ bFailed' = drvsFailed
       ELSE pc' = "realize" /\ UNCHANGED bFailed
    /\ UNCHANGED <<envVars, cacheVars, op, ret, exc, result, bisectVars, lcVars, histVars>>
    /\ UNCHANGED <<bDrvs, bUse, bWrite, resultCache, bResult, bSpawned, drvsFailed>>

\* nix.py:197-202  nix-store --realize drvs
Realize ==
    /\ pc = "realize"
    /\ UNCHANGED ptyVars
    /\ nRealize' = nRealize + 1
    /\ UNCHANGED <<substitutable, nixLog, cacheVars, op, ret, result>>
    /\ UNCHANGED <<bisectVars, lcVars, nSpawn, nLog, nDry>>
    /\ UNCHANGED <<bDrvs, bUse, bWrite, resultCache, bFailed, bSpawned, stream, drvsFailed>>
    /\ \E ok \in {TRUE} \cup {Needed(Range(bDrvs)) = {}} :
          IF ok
          THEN /\ realized' = realized \cup Closure(Range(bDrvs))
               /\ bResult' = "ok"
               /\ pc' = ret
               /\ UNCHANGED exc
          ELSE /\ Raise("CalledProcessError")
               /\ UNCHANGED <<realized, bResult>>

\* mutant: the rewritten map holds the units of this failure only
RecordFailuresFresh(rc, failed) == [x \in failed |-> FALSE]

\* nix.py:279-281  result_cache[drv] = False for every failed drv
RecordFailures(rc, failed) ==
    [x \in (DOMAIN rc) \cup failed |-> IF x \in failed THEN FALSE ELSE rc[x]]

\* mutant: every log the build tool can produce is written
WriteLogsAllKnown(lf, failed) ==
    [n \in (DOMAIN lf) \cup {Name(d) : d \in {x \in Drvs : Log(x).avail}} |->
        IF \E d \in Drvs : Log(d).avail /\ Name(d) = n
        THEN Log(CHOOSE d \in Drvs : Log(d).avail /\ Name(d) = n).text
        ELSE lf[n]]

\* nix.py:285-288  the logs that are available are written to logs/<name>
WriteLogs(lf, failed) ==
    LET logged == {d \in failed : Log(d).avail}
    IN  [n \in (DOMAIN lf) \cup {Name(d) : d \in logged} |->
            IF \E d \in logged : Name(d) = n
            THEN Log(CHOOSE d \in logged : Name(d) = n).text
            ELSE lf[n]]

\* mutant: write_cache is not looked at
WriteEnabledAlways(write) == TRUE

\* nix.py:278  if write_cache
WriteEnabled(write) == write

\* nix.py:277-293  except BuildFailure as bf
BuildExcept ==
    /\ pc = "except"
    /\ UNCHANGED ptyVars
    /\ bResult' = "BuildFailure"
    /\ pc' = ret
    /\ IF WriteEnabled(bWrite)
       THEN /\ resultCache' = RecordFailures(resultCache, bFailed)
            /\ logFiles' = WriteLogs(logFiles, bFailed)
            /\ nLog' = nLog + Cardinality(bFailed)
            /\ cacheFile' = "valid"
            /\ cacheMap' = RecordFailures(resultCache, bFailed)
       ELSE UNCHANGED <<resultCache, logFiles, nLog, cacheFile, cacheMap>>
    /\ UNCHANGED <<envVars, cacheDirs, op, ret, exc, result, bisectVars, lcVars>>
    /\ UNCHANGED <<nSpawn, nRealize, nDry>>
    /\ UNCHANGED <<bDrvs, bUse, bWrite, bFailed, bSpawned, stream, drvsFailed>>

\* ------------------------------------------------- build as a top-level call
\* The lists a caller may ask to build.
BuildLists == {<<>>, <<A>>, <<T>>, <<A, T>>, <<T, A>>}

StartBuild(ds, use, write) ==
    /\ Idle
    /\ UNCHANGED ptyVars
    /\ op' = "build"
    /\ CallBuild(ds, use, write, "top_ret")
    /\ UNCHANGED <<envVars, cacheVars, exc, result, bisectVars, lcVars, histVars>>

\* build returns its store paths, or BuildFailure leaves it
TopRet ==
    /\ pc = "top_ret"
    /\ UNCHANGED ptyVars
    /\ IF bResult = "ok"
       THEN pc' = "done" /\ result' = "ok" /\ UNCHANGED exc
       ELSE Raise("BuildFailure") /\ UNCHANGED result
    /\ UNCHANGED <<envVars, cacheVars, op, ret, bisectVars, buildVars, lcVars, histVars>>

\* ------------------------------------------------------------ log_contains
StartLogContains(d, phrase, write) ==
    /\ Idle
    /\ UNCHANGED ptyVars
    /\ op' = "log_contains"
    /\ pc' = "lc_start"
    /\ ret' = "none"
    /\ lcDrv' = d /\ lcPhrase' = phrase /\ lcWrite' = write
    /\ UNCHANGED <<envVars, cacheVars, exc, result, bisectVars, buildVars, histVars>>

\* nix.py:214-215  logfile.exists()
LogFileExists(d) == Name(d) \in DOMAIN logFiles

\* mutant: a persisted log without the phrase is read as a success
FromOwnCacheSuccess(text, phrase) == IF Contains(text, phrase) THEN "yes" ELSE "no_success"

\* nix.py:219  "yes" if phrase in log_content else "no_fail"
FromOwnCache(text, phrase) == IF Contains(text, phrase) THEN "yes" ELSE "no_fail"

\* nix.py:223  log_content is not None and phrase in log_content
StoreLogHas(lg, phrase) == lg.avail /\ Contains(lg.text, phrase)

\* nix.py:211-229  own cache, then the tool's log store, then a forced rebuild
LcStart ==
    /\ pc = "lc_start"
    /\ UNCHANGED ptyVars
    /\ UNCHANGED <<envVars, cacheVars, op, exc, bisectVars, lcVars>>
    /\ UNCHANGED <<nSpawn, nRealize, nDry>>
    /\ IF LogFileExists(lcDrv)
       THEN /\ result' = FromOwnCache(logFiles[Name(lcDrv)], lcPhrase)
            /\ pc' = "done"
            /\ UNCHANGED <<ret, buildVars, nLog>>
       ELSE /\ nLog' = nLog + 1
            /\ IF StoreLogHas(Log(lcDrv), lcPhrase)
               THEN /\ result' = "yes"
                    /\ pc' = "done"
                    /\ UNCHANGED <<ret, buildVars>>
               ELSE /\ CallBuild(<<lcDrv>>, FALSE, lcWrite, "lc_ret")
                    /\ UNCHANGED result

\* nix.py:234-239  the classification after the forced rebuild
AfterRebuild(text, phrase, success) ==
    IF Contains(text, phrase) THEN "yes"
    ELSE IF success THEN "no_success"
    ELSE "no_fail"

\* nix.py:230-239  `phrase in None` is a TypeError
LcRet ==
    /\ pc = "lc_ret"
    /\ UNCHANGED ptyVars
    /\ nLog' = nLog + 1
    /\ IF Log(lcDrv).avail
       THEN /\ result' = AfterRebuild(Log(lcDrv).text, lcPhrase, bResult = "ok")
            /\ pc' = "done"
            /\ UNCHANGED exc
       ELSE /\ Raise("TypeError")
            /\ UNCHANGED result
    /\ UNCHANGED <<envVars, cacheVars, op, ret, bisectVars, buildVars, lcVars>>
    /\ UNCHANGED <<nSpawn, nRealize, nDry>>

\* ----------------------------------------------------- build_would_succeed
StartWouldSucceed(ds, use, write) ==
    /\ Idle
    /\ UNCHANGED ptyVars
    /\ op' = "build_would_succeed"
    /\ pc' = "ws_start"
    /\ ret' = "none"
    /\ bDrvs' = ds /\ bUse' = use /\ bWrite' = write
    /\ UNCHANGED <<resultCache, bResult, bFailed, bSpawned, stream, drvsFailed>>
    /\ UNCHANGED <<envVars, cacheVars, exc, result, bisectVars, lcVars, histVars>>

\* mutant: the dry-run's answer is not used
NothingToBuildNever(toBuild) == FALSE

\* nix.py:244  len(build_dry(drvs)[0]) == 0
NothingToBuild(toBuild) == Len(toBuild) = 0

\* nix.py:244-248  build_dry raises when the dry-run fails or does not parse
WsStart ==
    /\ pc = "ws_start"
    /\ UNCHANGED ptyVars
    /\ nDry' = nDry + 1
    /\ UNCHANGED <<envVars, cacheVars, op, bisectVars, lcVars, nSpawn, nRealize, nLog>>
    /\ \E parsed \in BOOLEAN :
          IF ~parsed
          THEN /\ Raise("DryRunFailure")
               /\ UNCHANGED <<ret, result, buildVars>>
          ELSE IF NothingToBuild(ToBuild(Range(bDrvs)))
          THEN /\ result' = "True"
               /\ pc' = "done"
               /\ UNCHANGED <<ret, exc, buildVars>>
          ELSE /\ CallBuild(bDrvs, bUse, bWrite, "ws_ret")
               /\ UNCHANGED <<exc, result>>

\* nix.py:249-251
WsRet ==
    /\ pc = "ws_ret"
    /\ UNCHANGED ptyVars
    /\ result' = IF bResult = "ok" THEN "True" ELSE "False"
    /\ pc' = "done"
    /\ UNCHANGED <<envVars, cacheVars, op, ret, exc, bisectVars, buildVars, lcVars, histVars>>

\* -------------------------------------------------------- _perform_bisect
\* The command lines the controller may run the step with.
Ceilings == {NoCeiling} \cup (0..MaxCeiling)
FailureLines == {NoLine} \cup Phrases
BuildOptionLists == {<<>>, <<<<"cores", "1">>>>}

StartBisect(picks, ceiling, line, options) ==
    /\ Idle
    /\ UNCHANGED ptyVars
    /\ op' = "bisect"
    /\ pc' = "patching"
    /\ ret' = "none"
    /\ toPick' = picks /\ maxRebuilds' = ceiling
    /\ failureLine' = line /\ buildOptions' = options
    /\ UNCHANGED <<drv, verdicts>>
    /\ UNCHANGED <<envVars, cacheVars, exc, result, buildVars, lcVars, histVars>>

\* git_bisect.quit_good / quit_bad / quit_skip: the verdict is reported and
\* the step ends.
Quit(verdict) == verdicts' = Append(verdicts, verdict) /\ pc' = "done"

\* git.try_cherry_pick(rev) on a revision that does not apply: the run is
\* aborted.
PatchFailure == pc' = "aborted"

\* cli.py:13-14
Patching ==
    /\ pc = "patching"
    /\ UNCHANGED ptyVars
    /\ IF toPick = 0
       THEN pc' = "resolving" /\ UNCHANGED toPick
       ELSE \E applies \in BOOLEAN :
               IF applies
               THEN toPick' = toPick - 1 /\ UNCHANGED pc
               ELSE PatchFailure /\ UNCHANGED toPick
    /\ UNCHANGED <<envVars, cacheVars, op, ret, exc, result, buildVars, lcVars, histVars>>
    /\ UNCHANGED <<drv, maxRebuilds, failureLine, buildOptions, verdicts>>

\* cli.py:16-17, nix.py:97-102  nix.instantiate(attrname)
Resolving ==
    /\ pc = "resolving"
    /\ UNCHANGED ptyVars
    /\ \E resolved \in BOOLEAN :
          IF resolved
          THEN drv' = T /\ pc' = "budget" /\ UNCHANGED exc
          ELSE Raise("InstantiationFailure") /\ UNCHANGED drv
    /\ UNCHANGED <<envVars, cacheVars, op, ret, result, buildVars, lcVars, histVars>>
    /\ UNCHANGED <<toPick, maxRebuilds, failureLine, buildOptions, verdicts>>

\* mutant: the comparison off by one
ExceedsCeilingOffByOne(num, ceiling) == num >= ceiling

\* cli.py:21  num_rebuilds > max_rebuilds
ExceedsCeiling(num, ceiling) == num > ceiling

\* cli.py:19-25
BudgetCheck ==
    /\ pc = "budget"
    /\ UNCHANGED ptyVars
    /\ UNCHANGED <<envVars, cacheVars, op, ret, result, buildVars, lcVars>>
    /\ UNCHANGED <<toPick, drv, maxRebuilds, failureLine, buildOptions>>
    /\ UNCHANGED <<nSpawn, nRealize, nLog>>
    /\ IF maxRebuilds = NoCeiling
       THEN pc' = "depbuild" /\ UNCHANGED <<exc, verdicts, nDry>>
       ELSE /\ nDry' = nDry + 1
            /\ \E parsed \in BOOLEAN :
                  IF ~parsed
                  THEN Raise("DryRunFailure") /\ UNCHANGED verdicts
                  ELSE /\ IF ExceedsCeiling(Len(ToBuild({drv})), maxRebuilds)
                          THEN Quit("skip")
                          ELSE pc' = "depbuild" /\ UNCHANGED verdicts
                       /\ UNCHANGED exc

\* cli.py:28  build_options is passed where build takes use_cache
UseCacheArg(options) == Len(options) > 0

\* cli.py:27-28  nix.build(nix.dependencies([drv]), build_options)
DependencyBuild ==
    /\ pc = "depbuild"
    /\ UNCHANGED ptyVars
    /\ nDry' = nDry + 1
    /\ UNCHANGED <<envVars, cacheVars, op, result, bisectVars, lcVars>>
    /\ UNCHANGED <<nSpawn, nRealize, nLog>>
    /\ \E parsed \in BOOLEAN :
          IF ~parsed
          THEN Raise("DryRunFailure") /\ UNCHANGED <<ret, buildVars>>
          ELSE /\ CallBuild(Dependencies(<<drv>>), UseCacheArg(buildOptions), TRUE, "dep_ret")
               /\ UNCHANGED exc

\* mutant: the BuildFailure of the dependency build is swallowed
DependencyRetSwallows ==
    /\ pc = "dep_ret"
    /\ UNCHANGED ptyVars
    /\ pc' = "shortcut"
    /\ UNCHANGED <<envVars, cacheVars, op, ret, exc, result, buildVars, lcVars, histVars>>
    /\ UNCHANGED bisectVars

\* cli.py:29-31
DependencyRet ==
    /\ pc = "dep_ret"
    /\ UNCHANGED ptyVars
    /\ IF bResult = "BuildFailure"
       THEN Quit("skip")
       ELSE pc' = "shortcut" /\ UNCHANGED verdicts
    /\ UNCHANGED <<envVars, cacheVars, op, ret, exc, result, buildVars, lcVars, histVars>>
    /\ UNCHANGED <<toPick, drv, maxRebuilds, failureLine, buildOptions>>

\* mutant: the needs-rebuild conjunct dropped
NeedsRebuildDropped(toBuild) == TRUE

\* cli.py:35  len(nix.build_dry([drv])[0]) > 0
NeedsRebuild(toBuild) == Len(toBuild) > 0

\* cli.py:33-40  the conjuncts are evaluated left to right and stop at the
\* first that is false
CacheShortcut ==
    /\ pc = "shortcut"
    /\ UNCHANGED ptyVars
    /\ UNCHANGED <<envVars, cacheVars, op, ret, result, buildVars, lcVars>>
    /\ UNCHANGED <<toPick, drv, maxRebuilds, failureLine, buildOptions>>
    /\ UNCHANGED <<nSpawn, nRealize>>
    /\ IF failureLine = NoLine
       THEN pc' = "targetbuild" /\ UNCHANGED <<exc, verdicts, nDry, nLog>>
       ELSE /\ nDry' = nDry + 1
            /\ \E parsed \in BOOLEAN :
                  IF ~parsed
                  THEN Raise("DryRunFailure") /\ UNCHANGED <<verdicts, nLog>>
                  ELSE /\ UNCHANGED exc
                       /\ IF ~NeedsRebuild(ToBuild({drv}))
                          THEN pc' = "targetbuild" /\ UNCHANGED <<verdicts, nLog>>
                          ELSE IF ~Log(drv).avail
                          THEN pc' = "targetbuild" /\ nLog' = nLog + 1 /\ UNCHANGED verdicts
                          ELSE /\ nLog' = nLog + 2
                               /\ IF Contains(Log(drv).text, failureLine)
                                  THEN Quit("bad")
                                  ELSE pc' = "targetbuild" /\ UNCHANGED verdicts

\* cli.py:42-43  nix.build([drv], build_options)
TargetBuild ==
    /\ pc = "targetbuild"
    /\ UNCHANGED ptyVars
    /\ CallBuild(<<drv>>, UseCacheArg(buildOptions), TRUE, "target_ret")
    /\ UNCHANGED <<envVars, cacheVars, op, exc, result, bisectVars, lcVars, histVars>>

\* cli.py:46  failure_line is None or failure_line in nix.log(drv)
FailureIsTracked(line, text) == line = NoLine \/ Contains(text, line)

\* cli.py:44-49  `failure_line in None` is a TypeError
TargetRet ==
    /\ pc = "target_ret"
    /\ UNCHANGED ptyVars
    /\ UNCHANGED <<envVars, cacheVars, op, ret, result, buildVars, lcVars>>
    /\ UNCHANGED <<toPick, drv, maxRebuilds, failureLine, buildOptions>>
    /\ UNCHANGED <<nSpawn, nRealize, nDry>>
    /\ IF bResult = "BuildFailure"
       THEN IF failureLine = NoLine
            THEN Quit("bad") /\ UNCHANGED <<exc, nLog>>
            ELSE /\ nLog' = nLog + 1
                 /\ IF ~Log(drv).avail
                    THEN Raise("TypeError") /\ UNCHANGED verdicts
                    ELSE /\ IF FailureIsTracked(failureLine, Log(drv).text)
                            THEN Quit("bad")
                            ELSE Quit("skip")
                         /\ UNCHANGED exc
       ELSE pc' = "final" /\ UNCHANGED <<exc, verdicts, nLog>>

\* cli.py:51  failure_line is not None and failure_line in nix.log(drv)
MarkerInLog(line, text) == line # NoLine /\ Contains(text, line)

\* cli.py:51-54  `failure_line in None` is a TypeError
FinalCheck ==
    /\ pc = "final"
    /\ UNCHANGED ptyVars
    /\ UNCHANGED <<envVars, cacheVars, op, ret, result, buildVars, lcVars>>
    /\ UNCHANGED <<toPick, drv, maxRebuilds, failureLine, buildOptions>>
    /\ UNCHANGED <<nSpawn, nRealize, nDry>>
    /\ IF failureLine = NoLine
       THEN Quit("good") /\ UNCHANGED <<exc, nLog>>
       ELSE /\ nLog' = nLog + 1
            /\ IF ~Log(drv).avail
               THEN Raise("TypeError") /\ UNCHANGED verdicts
               ELSE /\ IF MarkerInLog(failureLine, Log(drv).text)
                       THEN Quit("bad")
                       ELSE Quit("good")
                    /\ UNCHANGED exc

Next ==
    \/ \E ds \in BuildLists, use \in BOOLEAN, write \in BOOLEAN : StartBuild(ds, use, write)
    \/ BuildEnter
    \/ UncachedStart
    \/ ExpectMatch
    \/ ExpectEOF
    \/ Realize
    \/ BuildExcept
    \/ TopRet
    \/ \E d \in Drvs, phrase \in Phrases, write \in BOOLEAN : StartLogContains(d, phrase, write)
    \/ LcStart
    \/ LcRet
    \/ \E ds \in BuildLists, use \in BOOLEAN, write \in BOOLEAN :
          StartWouldSucceed(ds, use, write)
    \/ WsStart
    \/ WsRet
    \/ \E picks \in 0..MaxPicks, ceiling \in Ceilings, line \in FailureLines,
          options \in BuildOptionLists : StartBisect(picks, ceiling, line, options)
    \/ Patching
    \/ Resolving
    \/ BudgetCheck
    \/ DependencyBuild
    \/ DependencyRet
    \/ CacheShortcut
    \/ TargetBuild
    \/ TargetRet
    \/ FinalCheck
    \/ Exit

Spec == Init /\ [][Next]_vars


\* ------------------------------------------------------- the scanner alone
\* Lines a build process may print: other output and the four failure
\* messages of nix.py:19-22, each naming units of the universe.
ScanMessages ==
    {Other}
    \cup {Msg(shape, <<d>>) : shape \in {"cannot", "timeout", "builder"}, d \in Drvs}
    \cup {Msg("buildof", ids) : ids \in {<<A>>, <<T>>, <<A, T>>, <<T, A>>}}

ScanStreams == UNION {[1..n -> ScanMessages] : n \in 0..MaxScanLen}

\* nix.py:136-150  a build process has just been spawned for both units and
\* prints any stream; the loop of nix.py:151-192 is about to read it.
InitScan ==
    /\ realized = {} /\ substitutable = {}
    /\ nixLog = [d \in Drvs |-> NoLog]
    /\ cacheDirs = TRUE /\ cacheFile = "absent"
    /\ cacheMap = EmptyDict /\ logFiles = EmptyDict
    /\ pc = "expect" /\ op = "build" /\ ret = "top_ret" /\ exc = "none" /\ result = "none"
    /\ toPick = 0 /\ drv = <<>> /\ maxRebuilds = NoCeiling /\ failureLine = NoLine
    /\ buildOptions = <<>> /\ verdicts = <<>>
    /\ bDrvs = DrvOrder /\ bUse = FALSE /\ bWrite = FALSE /\ resultCache = EmptyDict
    /\ bResult = "none" /\ bFailed = {} /\ bSpawned = TRUE
    /\ stream \in ScanStreams /\ drvsFailed = {}
    /\ lcDrv = <<>> /\ lcPhrase = Marker /\ lcWrite = FALSE
    /\ nSpawn = 1 /\ nRealize = 0 /\ nLog = 0 /\ nDry = 0
    /\ output = stream /\ handler = TRUE /\ termSize = InitialGeom
    /\ childSize = InitialGeom /\ chanClosed = FALSE

NextScan == ExpectMatch \/ ExpectEOF

SpecScan == InitScan /\ [][NextScan]_vars


\* ------------------------------------------- a cache file that does not parse
\* As Init, but the cache directory may have been left with a result-cache
\* file that json.load (nix.py:264) rejects.
InitCorrupt ==
    /\ realized \in SUBSET Drvs
    /\ substitutable \in SUBSET Drvs
    /\ nixLog \in [Drvs -> LogVals]
    /\ cacheFile \in {"absent", "malformed"}
    /\ cacheDirs = (cacheFile # "absent")
    /\ cacheMap = EmptyDict
    /\ logFiles = EmptyDict
    /\ pc = "idle" /\ op = "none" /\ ret = "none" /\ exc = "none" /\ result = "none"
    /\ toPick = 0 /\ drv = <<>> /\ maxRebuilds = NoCeiling /\ failureLine = NoLine
    /\ buildOptions = <<>> /\ verdicts = <<>>
    /\ bDrvs = <<>> /\ bUse = FALSE /\ bWrite = FALSE /\ resultCache = EmptyDict
    /\ bResult = "none" /\ bFailed = {} /\ bSpawned = FALSE
    /\ stream = <<>> /\ drvsFailed = {}
    /\ lcDrv = <<>> /\ lcPhrase = Marker /\ lcWrite = FALSE
    /\ nSpawn = 0 /\ nRealize = 0 /\ nLog = 0 /\ nDry = 0
    /\ output = <<>> /\ handler = FALSE /\ termSize = InitialGeom
    /\ childSize = NoSize /\ chanClosed = FALSE

SpecCorrupt == InitCorrupt /\ [][Next]_vars


\* ------------------------------------------------------ terminal resizes
\* The terminal is resized to g.  SIGWINCH runs the handler installed at
\* nix.py:148, if a build has installed it, between two steps of the program.
Resize(g) ==
    /\ g # termSize
    /\ termSize' = g
    /\ IF handler THEN UpdateBuildWinsize(chanClosed) ELSE UNCHANGED childSize
    /\ UNCHANGED <<envVars, cacheVars, ctlVars, bisectVars, buildVars, lcVars, histVars>>
    /\ UNCHANGED <<output, handler, chanClosed>>

\* The channel to a build process whose stream has ended gets closed
\* (build_process.closed, read at nix.py:144, becomes True) while the handler
\* that refers to it is still installed.
ChannelCloses ==
    /\ handler /\ ~chanClosed
    /\ pc # "expect"
    /\ chanClosed' = TRUE
    /\ UNCHANGED <<envVars, cacheVars, ctlVars, bisectVars, buildVars, lcVars, histVars>>
    /\ UNCHANGED <<output, handler, termSize, childSize>>

\* As Init, from an empty store with nothing to substitute.
InitResize ==
    /\ realized = {}
    /\ substitutable = {}
    /\ nixLog \in [Drvs -> LogVals]
    /\ cacheDirs = FALSE
    /\ cacheFile = "absent"
    /\ cacheMap = EmptyDict
    /\ logFiles = EmptyDict
    /\ pc = "idle" /\ op = "none" /\ ret = "none" /\ exc = "none" /\ result = "none"
    /\ toPick = 0 /\ drv = <<>> /\ maxRebuilds = NoCeiling /\ failureLine = NoLine
    /\ buildOptions = <<>> /\ verdicts = <<>>
    /\ bDrvs = <<>> /\ bUse = FALSE /\ bWrite = FALSE /\ resultCache = EmptyDict
    /\ bResult = "none" /\ bFailed = {} /\ bSpawned = FALSE
    /\ stream = <<>> /\ drvsFailed = {}
    /\ lcDrv = <<>> /\ lcPhrase = Marker /\ lcWrite = FALSE
    /\ nSpawn = 0 /\ nRealize = 0 /\ nLog = 0 /\ nDry = 0
    /\ output = <<>> /\ handler = FALSE /\ termSize \in Geoms
    /\ childSize = NoSize /\ chanClosed = FALSE

NextResize ==
    \/ Next
    \/ \E g \in Geoms : Resize(g)
    \/ ChannelCloses

SpecResize == InitResize /\ [][NextResize]_vars


\* ====================================================================
\* Properties
\* ====================================================================

\* An uncaught exception the claims about a step set aside: the target did
\* not resolve, a dry-run did not parse, or the realize query failed.
StepSetAside == exc \in {"InstantiationFailure", "DryRunFailure", "CalledProcessError"}

\* The step has got past the return of the dependency build / target build.
PastDependencyBuild == op = "bisect" /\ ret = "dep_ret" /\ pc \notin {"build", "uncached", "expect", "realize", "except", "dep_ret"}
PastTargetBuild == op = "bisect" /\ ret = "target_ret" /\ pc \notin {"build", "uncached", "expect", "realize", "except", "target_ret", "final"}

\* C1: every step in which patching, resolution and the dry-runs succeed ends
\* with exactly one verdict, whatever the build tool answers to builds and
\* log queries.
C1_ExactlyOneVerdict ==
    (op = "bisect" /\ Ended /\ pc # "aborted" /\ ~StepSetAside)
        => (pc = "done" /\ Len(verdicts) = 1 /\ verdicts[1] \in {"good", "bad", "skip"})

\* C2: with a ceiling configured and more units to build than the ceiling,
\* the budget check ends the step with skip and no build has been invoked;
\* otherwise (count within the ceiling, or no ceiling) the step goes on to
\* the dependency build.
C2_BudgetCheck ==
    [][(pc = "budget" /\ pc' # "raised") =>
          IF maxRebuilds # NoCeiling /\ Len(ToBuild({drv})) > maxRebuilds
          THEN /\ pc' = "done" /\ verdicts' = <<"skip">>
               /\ nSpawn' = 0 /\ nRealize' = 0 /\ bResult' = "none" /\ ret' = "none"
               /\ realized' = realized
          ELSE pc' = "depbuild" /\ verdicts' = <<>>]_vars

\* C2 witness: a step skipped by the budget check, nothing built.
C2_Witness ==
    /\ op = "bisect" /\ pc = "done" /\ verdicts = <<"skip">>
    /\ maxRebuilds # NoCeiling /\ Len(ToBuild({drv})) > maxRebuilds
    /\ nSpawn = 0 /\ ret = "none"

\* C3: when the dependency build ends in BuildFailure the step ends with skip,
\* whatever the marker; the dependency build never includes the target and the
\* target build is never entered.
C3_DependencyFailureSkips ==
    /\ (op = "bisect" /\ ret = "dep_ret") => drv \notin Range(bDrvs)
    /\ (PastDependencyBuild /\ bResult = "BuildFailure")
          => (pc = "done" /\ verdicts = <<"skip">>)

\* C3 witness: a real dependency build failed with a marker configured while
\* the target itself is already realized, and the step was skipped.
C3_Witness ==
    /\ PastDependencyBuild /\ bResult = "BuildFailure" /\ bSpawned
    /\ failureLine # NoLine /\ verdicts = <<"skip">>

\* C4: after a failed target build the verdict is bad when no marker is
\* configured or the marker is in the target's log, and skip otherwise, also
\* when no log can be obtained.
C4_FailedTargetVerdict ==
    (PastTargetBuild /\ bResult = "BuildFailure")
        => /\ pc = "done"
           /\ verdicts = <<IF failureLine = NoLine
                              \/ (Log(drv).avail /\ Contains(Log(drv).text, failureLine))
                           THEN "bad" ELSE "skip">>

\* C5: after a successful target build the verdict is bad when a marker is
\* configured and present in the target's log, and good otherwise.
C5_BuiltTargetVerdict ==
    (PastTargetBuild /\ bResult = "ok")
        => /\ pc = "done"
           /\ verdicts = <<IF failureLine # NoLine /\ Log(drv).avail
                              /\ Contains(Log(drv).text, failureLine)
                           THEN "bad" ELSE "good">>

\* C6: with a marker configured, the target still to be built and a known log
\* of the target that contains the marker, the step ends with bad and the
\* target build is not entered; with no marker the shortcut is not taken and
\* makes no dry-run and no log query.
C6_CacheShortcut ==
    /\ [](op = "bisect" /\ pc = "targetbuild" /\ failureLine = NoLine => nLog = 0)
    /\ [][(pc = "shortcut" /\ pc' # "raised") =>
          /\ bResult = "ok"
          /\ IF /\ failureLine # NoLine
                /\ drv \in Range(ToBuild({drv}))
                /\ Log(drv).avail /\ Contains(Log(drv).text, failureLine)
             THEN /\ pc' = "done" /\ verdicts' = <<"bad">>
                  /\ ret' = "dep_ret" /\ nSpawn' = nSpawn /\ realized' = realized
             ELSE pc' = "targetbuild" /\ verdicts' = <<>>
          /\ failureLine = NoLine => (nLog' = nLog /\ nDry' = nDry)]_vars

\* C6 witness: bad by the shortcut, the target build never entered.
C6_Witness ==
    /\ PastDependencyBuild /\ pc = "done" /\ verdicts = <<"bad">>
    /\ drv \notin realized

\* The persisted OutcomeMap records false for d.
RecordedFalse(d) == cacheFile = "valid" /\ d \in DOMAIN cacheMap /\ cacheMap[d] = FALSE

\* C7: a build that consults the cache and is asked for a unit recorded false
\* fails with BuildFailure naming one such unit, spawning nothing and issuing
\* no realize query; units not recorded false do not make it fail.
C7_CachedFailure ==
    [][(pc = "build" /\ bUse) =>
          IF \E i \in 1..Len(bDrvs) : RecordedFalse(bDrvs[i])
          THEN /\ pc' = ret /\ bResult' = "BuildFailure"
               /\ \E d \in Range(bDrvs) : RecordedFalse(d) /\ bFailed' = {d}
               /\ ~bSpawned' /\ nSpawn' = nSpawn /\ nRealize' = nRealize
          ELSE pc' = "uncached" /\ bResult' = "none"]_vars

\* C7 witness: build([A, T]) failed for the recorded T with nothing spawned,
\* A having no entry.
C7_Witness ==
    /\ op = "build" /\ pc = "top_ret" /\ bUse /\ bResult = "BuildFailure"
    /\ bDrvs = <<A, T>> /\ bFailed = {T} /\ ~bSpawned /\ A \notin DOMAIN cacheMap

\* build is between its entry and the end of the build attempt.
InBuild == pc \in {"build", "uncached", "expect", "realize"}

\* C8: a real build attempt that fails with cache writing on leaves the
\* persisted map with false for every failed unit and every other entry as it
\* was when the call was entered, whatever use_cache is.
C8_RecordFailures ==
    /\ [][InBuild => UNCHANGED <<cacheFile, cacheMap, logFiles>>]_vars
    /\ [][(pc = "except" /\ bWrite) =>
            /\ cacheFile' = "valid"
            /\ \A d \in bFailed : d \in DOMAIN cacheMap' /\ cacheMap'[d] = FALSE
            /\ \A d \in Drvs \ bFailed :
                  /\ (d \in DOMAIN cacheMap') = (d \in DOMAIN cacheMap)
                  /\ d \in DOMAIN cacheMap => cacheMap'[d] = cacheMap[d]]_vars

\* C8 witness: a failed real build with use_cache off and write_cache on has
\* returned, and the map holds an entry for a unit that did not fail now.
C8_Witness ==
    /\ pc = ret /\ bResult = "BuildFailure" /\ bSpawned /\ bWrite /\ ~bUse
    /\ \A d \in bFailed : RecordedFalse(d)
    /\ \E d \in Drvs \ bFailed : RecordedFalse(d)

\* C9: with a persisted failure log for the unit, log_contains answers yes or
\* no_fail from that log alone: no log query, no build, the persisted cache
\* and the store unchanged.
C9_OwnLogTrusted ==
    [][(pc = "lc_start" /\ Name(lcDrv) \in DOMAIN logFiles) =>
          /\ pc' = "done"
          /\ result' = IF lcPhrase \in logFiles[Name(lcDrv)] THEN "yes" ELSE "no_fail"
          /\ nLog' = 0 /\ nSpawn' = 0 /\ nRealize' = 0 /\ bResult' = "none"
          /\ UNCHANGED <<cacheVars, envVars>>]_vars

\* C9 witness: log_contains answered no_fail from a persisted log while the
\* tool's own log store has the phrase.
C9_Witness ==
    /\ op = "log_contains" /\ pc = "done" /\ result = "no_fail"
    /\ Name(lcDrv) \in DOMAIN logFiles /\ nLog = 0 /\ nSpawn = 0
    /\ StoreLogHas(Log(lcDrv), lcPhrase)

\* C10: when the forced rebuild has ended (built or BuildFailure),
\* log_contains returns yes if the log fetched afterwards has the phrase, else
\* no_success after a successful rebuild and no_fail after a failed one, also
\* when that log is unavailable.
C10_AfterForcedRebuild ==
    (op = "log_contains" /\ ret = "lc_ret" /\ Ended /\ bResult \in {"ok", "BuildFailure"})
        => /\ pc = "done"
           /\ ~bUse /\ nSpawn = 1
           /\ result = IF Log(lcDrv).avail /\ Contains(Log(lcDrv).text, lcPhrase) THEN "yes"
                       ELSE IF bResult = "ok" THEN "no_success"
                       ELSE "no_fail"

\* C11: a step in which the target does not resolve or a dry-run does not
\* parse ends with the controller's abort operation and with no verdict.
C11_FatalErrorAborts ==
    (op = "bisect" /\ Ended /\ exc \in {"InstantiationFailure", "DryRunFailure"})
        => (pc = "aborted" /\ verdicts = <<>>)

\* The stream read to its end: the loop of _build_uncached has left.
StreamEnded == pc \in {"except", "realize"}

\* C12: whatever the build process printed, at end of stream the failure set
\* is the union of the ids named in the failure messages of the output, and
\* it is empty exactly when the output holds no failure message (then the
\* build goes on to the realize query, otherwise it fails).
C12_FailureSetIsUnion ==
    StreamEnded =>
        /\ drvsFailed = NamedIn(output)
        /\ (drvsFailed = {}) <=> (\A i \in 1..Len(output) : ~IsFailureMsg(output[i]))
        /\ (pc = "realize") <=> (drvsFailed = {})

\* C12 witness: a stream with other output and two failure messages of
\* different shapes naming different units has been read to its end.
C12_Witness ==
    /\ StreamEnded
    /\ \E i, j, k \in 1..Len(output) :
          /\ IsFailureMsg(output[i]) /\ IsFailureMsg(output[j])
          /\ output[i].shape # output[j].shape
          /\ output[i].ids # output[j].ids
          /\ output[k] = Other
    /\ drvsFailed = {A, T}

\* C13: while the persisted map does not parse, a build call that consults
\* or writes the cache raises the decoding error at its entry, with no build
\* process spawned by it, and no step of any call changes the file.
C13_MalformedIsFatal ==
    [][cacheFile = "malformed" =>
          /\ cacheFile' = "malformed" /\ cacheMap' = cacheMap
          /\ (pc = "build" /\ (bUse \/ bWrite)) =>
                /\ pc' = "raised" /\ exc' = "JSONDecodeError"
                /\ ~bSpawned' /\ nSpawn' = nSpawn /\ nSpawn = 0]_vars

\* C13 witness: a call that only writes the cache has been stopped by the
\* malformed file, which is still there.
C13_Witness ==
    /\ pc = "raised" /\ exc = "JSONDecodeError"
    /\ cacheFile = "malformed"
    /\ bWrite /\ ~bUse /\ ~bSpawned /\ nSpawn = 0

\* C14: build_would_succeed, once its dry-run has parsed, returns True at
\* once and with no build when the dry-run lists nothing to build, whatever
\* the persisted map holds; otherwise it calls build with its arguments and
\* returns True when that returns and False when it raises BuildFailure.
C14_WouldSucceed ==
    [][/\ (pc = "ws_start" /\ pc' # "raised") =>
             IF Len(ToBuild(Range(bDrvs))) = 0
             THEN /\ pc' = "done" /\ result' = "True"
                  /\ nSpawn' = 0 /\ nRealize' = 0
                  /\ UNCHANGED cacheVars
             ELSE /\ pc' = "build" /\ ret' = "ws_ret"
                  /\ bDrvs' = bDrvs /\ bUse' = bUse /\ bWrite' = bWrite
       /\ pc = "ws_ret" =>
             /\ bResult \in {"ok", "BuildFailure"}
             /\ pc' = "done"
             /\ result' = (IF bResult = "ok" THEN "True" ELSE "False")]_vars

\* C14 witness: True was returned with no build for a unit the persisted
\* map holds as failed, by a call that consults the map.
C14_Witness ==
    /\ op = "build_would_succeed" /\ pc = "done" /\ result = "True"
    /\ nDry = 1 /\ nSpawn = 0 /\ bUse
    /\ \E d \in Range(bDrvs) : RecordedFalse(d)

\* C15: every entry of the persisted map is False, and a unit the map holds
\* as failed is still held as failed after every step of every call, a
\* successful forced rebuild of it included.
C15_FalseForever ==
    [][/\ \A d \in DOMAIN cacheMap' : cacheMap'[d] = FALSE
       /\ \A d \in Drvs : RecordedFalse(d) => RecordedFalse(d)']_vars

\* C15 witness: log_contains has rebuilt, with the cache not consulted, a
\* unit recorded as failed; the build succeeded and the entry is still there.
C15_Witness ==
    /\ op = "log_contains" /\ pc = "done"
    /\ bSpawned /\ ~bUse /\ bResult = "ok" /\ nRealize = 1
    /\ lcDrv \in realized
    /\ RecordedFalse(lcDrv)

\* C16: a step changes the persisted map or a persisted log only when it is
\* the except clause of a build whose process was spawned, whose failure set
\* is not empty and which has cache writing on; then the call fails.
C16_WrittenOnlyOnRealFailure ==
    [][<<cacheFile, cacheMap, logFiles>>' # <<cacheFile, cacheMap, logFiles>> =>
          /\ pc = "except" /\ bSpawned /\ bFailed # {} /\ bWrite
          /\ bResult' = "BuildFailure"]_vars

\* C16 witness: a spawned build has failed with cache writing off for a unit
\* the map does not hold, and the cache is as it was at the start.
C16_Witness ==
    /\ bResult = "BuildFailure" /\ bSpawned /\ ~bWrite
    /\ \E d \in bFailed : ~RecordedFalse(d)
    /\ cacheFile = "absent" /\ logFiles = EmptyDict

\* The running top-level call makes at most one build call.
SingleBuildCall == op \in {"build", "log_contains", "build_would_succeed"}

\* C17: an uncached build of a non-empty list spawns exactly one build
\* process; with a non-empty failure set at end of stream it fails with
\* BuildFailure carrying that set and issues no realize query; the realize
\* query is issued once, and only after a stream that left the set empty.
C17_OneAttempt ==
    SingleBuildCall =>
        /\ nSpawn <= 1 /\ nRealize <= 1
        /\ bSpawned <=> (nSpawn = 1)
        /\ pc \in {"expect", "except", "realize"} => (bSpawned /\ nRealize = 0)
        /\ (bResult = "ok" /\ bDrvs # <<>>) => (bSpawned /\ nRealize = 1)
        /\ (bResult = "BuildFailure" /\ bSpawned) =>
              (nRealize = 0 /\ bFailed # {} /\ bFailed = drvsFailed)
        /\ pc = "except" => (bFailed # {} /\ bFailed = drvsFailed)
        /\ nRealize = 1 => (bSpawned /\ drvsFailed = {} /\ stream = <<>>)

\* C17 witness: a build of two units whose process reported a failure has
\* ended: one process, no realize query, the failure set handed on.
C17_Witness ==
    /\ op = "build" /\ Ended /\ Len(bDrvs) = 2
    /\ bResult = "BuildFailure" /\ bSpawned
    /\ nSpawn = 1 /\ nRealize = 0 /\ bFailed = drvsFailed /\ bFailed # {}

\* C18: in a step, the dependency build never gets as far as a build process
\* while one of the not-yet-realized dependencies it was asked for is held as
\* failed in the map persisted by earlier steps: it fails from the cache and
\* the step ends with skip.
C18_RecordedDependencySkips ==
    (op = "bisect" /\ ret = "dep_ret" /\ pc \in {"uncached", "expect"})
        => \A d \in Range(bDrvs) : ~RecordedFalse(d)

\* C19: a terminal resize, whenever it arrives, changes nothing but the
\* terminal's geometry and the geometry set on the child's channel: the
\* failure set, the persisted cache, the verdicts and the position of the
\* program stay as they are and no exception is raised; the child gets the new
\* geometry when a handler is installed and the channel is open, and is left
\* alone when the channel is closed.
C19_ResizeOnlyForwards ==
    [][termSize' # termSize =>
          /\ UNCHANGED <<envVars, cacheVars, ctlVars, bisectVars, buildVars, lcVars, histVars>>
          /\ UNCHANGED <<output, handler, chanClosed>>
          /\ childSize' = (IF handler /\ ~chanClosed THEN termSize' ELSE childSize)]_vars

\* C19 witness: a build whose stream named a failure got a resize forwarded
\* to its child; the channel was closed afterwards and a second resize was
\* then left unforwarded.
C19_Witness ==
    /\ handler /\ chanClosed
    /\ drvsFailed # {}
    /\ childSize \in Geoms /\ childSize # InitialGeom /\ termSize = InitialGeom
    /\ pc # "raised"

\* C20: between calls and at the end of every call, each persisted failure
\* log is the log of a unit the persisted map holds as failed.
C20_LogsOnlyForFailed ==
    (Idle \/ Ended) =>
        \A n \in DOMAIN logFiles : \E d \in Drvs : Name(d) = n /\ RecordedFalse(d)

\* C20 witness: a call has ended with two units recorded as failed, one with
\* a persisted log and one without.
C20_Witness ==
    /\ Ended
    /\ \E d, e \in Drvs :
          /\ RecordedFalse(d) /\ Name(d) \in DOMAIN logFiles
          /\ RecordedFalse(e) /\ Name(e) \notin DOMAIN logFiles

====
